---- MODULE Spec2Model ----
(***************************************************************************)
(* Model of ordway/client.py: the OrdwayClient configuration object, its   *)
(* validated api_version property, the scope protocol (__enter__/__exit__) *)
(* and the from_env alternate constructor.                                 *)
(*                                                                         *)
(* Strings whose characters matter (version strings) are sequences of      *)
(* one-character strings, so that startswith("v") and [1:] are computed.   *)
(* An Optional value is a set: {} is None, {x} is the value x.             *)
(***************************************************************************)
EXTENDS Integers, Sequences, FiniteSets, TLC

VARIABLES pc, self, sessions, argSession, environ, log, lastCall, exitCalls

vars == <<pc, self, sessions, argSession, environ, log, lastCall, exitCalls>>

\* ---------------------------------------------------------------- bounds
\* longest version string handed to the constructor, the setter or the env
MaxLen == 3
\* how many times __exit__ is called on one client
MaxExits == 2

\* ------------------------------------------------------------ input sets
Alphabet == {"v", "1"}
VersionStrings == UNION {[1..n -> Alphabet] : n \in 0..MaxLen}

None == {}
Some(x) == {x}
The(o) == CHOOSE x \in o : TRUE

HeaderKeys == {"X-Foo", "X-Bar"}
HeaderVals == {"a", "b"}
ProxyKeys == {"https"}
ProxyVals == {"http://proxy:8080"}
Maps(K, V) == UNION {[D -> V] : D \in SUBSET K}
OptHeaders == {None} \cup {Some(m) : m \in Maps(HeaderKeys, HeaderVals)}
OptProxies == {None} \cup {Some(m) : m \in Maps(ProxyKeys, ProxyVals)}
GivenSessions == {[headers |-> h, proxies |-> p, closes |-> 0] :
                     h \in Maps(HeaderKeys, HeaderVals), p \in Maps(ProxyKeys, ProxyVals)}
OptSessions == {None} \cup {Some(s) : s \in GivenSessions}

EmptyMap == [k \in {} |-> k]

\* ------------------------------------------------------- program constants
\* consts.SUPPORTED_API_VERSIONS, re-exported on the class
SUPPORTED_API_VERSIONS == {<<"1">>}

\* default of the api_version parameter of __init__
DefaultApiVersion == <<"1">>

\* the resource interfaces, in the order __init__ assigns them
InterfaceOrder ==
  <<"products", "customers", "subscriptions", "invoices", "payments",
    "credits", "plans", "refunds", "webhooks", "journal_entries",
    "payment_runs", "statements", "coupons", "orders", "usages",
    "billing_runs", "revenue_schedules", "billing_schedules",
    "revenue_rules", "chart_of_accounts">>
INTERFACES == {InterfaceOrder[i] : i \in 1..Len(InterfaceOrder)}

\* the environment variables from_env reads, in the order it reads them
REQUIRED_ENV == <<"ORDWAY_EMAIL", "ORDWAY_API_KEY", "ORDWAY_COMPANY", "ORDWAY_USER_TOKEN">>
RequiredNames == {REQUIRED_ENV[i] : i \in 1..Len(REQUIRED_ENV)}

EnvValue == [ORDWAY_EMAIL |-> "a@b.com", ORDWAY_API_KEY |-> "k",
             ORDWAY_COMPANY |-> "acme", ORDWAY_USER_TOKEN |-> "t"]
RequiredEnvs == {[n \in D |-> EnvValue[n]] : D \in SUBSET RequiredNames}
OptionalEnvs == {EmptyMap} \cup {("ORDWAY_API_VERSION" :> v) : v \in VersionStrings}
Envs == {r @@ o : r \in RequiredEnvs, o \in OptionalEnvs}

\* ---------------------------------------------------------------- session
OwnId == "own"
ExternalId == "ext"

\* a new default session
DefaultSession == [headers |-> EmptyMap, proxies |-> EmptyMap, closes |-> 0]

\* session_factory(session): the identity of the session the client holds
SessionFactoryId(sess) == IF sess = None THEN OwnId ELSE ExternalId

\* session_factory(session): the session objects that exist after the call
SessionFactoryHeap(sess) ==
  IF sess = None THEN (OwnId :> DefaultSession) ELSE (ExternalId :> The(sess))

\* dict.update
Update(d, u) == [k \in DOMAIN d \cup DOMAIN u |-> IF k \in DOMAIN u THEN u[k] ELSE d[k]]

\* variant: the supplied mapping replaces the session's defaults
MergeDefaultsReplace(current, supplied) ==
  IF supplied # None THEN The(supplied) ELSE current

\* if headers is not None: self.session.headers.update(headers)   (and proxies)
MergeDefaults(current, supplied) ==
  IF supplied # None THEN Update(current, The(supplied)) ELSE current

\* ------------------------------------------------------------ api_version
\* variant: every leading "v" is removed
RECURSIVE StripAllV(_)
StripAllV(s) == IF Len(s) > 0 /\ Head(s) = "v" THEN StripAllV(Tail(s)) ELSE s

\* if api_version.startswith("v"): api_version = api_version[1:]
StripV(s) == IF Len(s) > 0 /\ Head(s) = "v" THEN Tail(s) ELSE s

\* _verify_api_version: TRUE when it returns, FALSE when it raises
VerifyApiVersion(version) == version \in SUPPORTED_API_VERSIONS

\* the message _verify_api_version raises with: it names "v" + version
VersionErrMessage(version) == [kind |-> "unsupported_version", names |-> <<"v">> \o version]

NoMessage == [kind |-> "none", names |-> <<>>]

\* variant: the interfaces are assigned before the version is validated
InterfacesEager(verified, sandbox) ==
  [n \in INTERFACES |-> [sandbox |-> sandbox]]

\* the interface attributes __init__ has assigned when it returns or raises:
\* the api_version assignment precedes all of them
Interfaces(verified, sandbox) ==
  IF verified THEN [n \in INTERFACES |-> [sandbox |-> sandbox]] ELSE EmptyMap

\* ---------------------------------------------------------------- __init__
InitCall(email, api_key, company, user_token, api_version, sandbox, proxies, headers, sess, op) ==
  LET sid      == SessionFactoryId(sess)
      heap     == SessionFactoryHeap(sess)
      merged   == [heap[sid] EXCEPT !.headers = MergeDefaults(@, headers),
                                    !.proxies = MergeDefaults(@, proxies)]
      version  == StripV(api_version)
      verified == VerifyApiVersion(version)
      attrs    == ("email" :> email) @@ ("api_key" :> api_key)
                  @@ ("company" :> company) @@ ("user_token" :> user_token)
                  @@ ("session" :> sid) @@ ("headers" :> headers)
                  @@ ("proxies" :> proxies) @@ ("_api_version" :> version)
  IN /\ argSession' = sess
     /\ sessions' = (sid :> merged)
     /\ self' = attrs @@ Interfaces(verified, sandbox)
     /\ pc' = IF verified THEN "open" ELSE "failed"
     /\ lastCall' = [op |-> op, arg |-> api_version,
                     raised |-> IF verified THEN "none" ELSE "config",
                     message |-> IF verified THEN NoMessage ELSE VersionErrMessage(version)]
     /\ UNCHANGED exitCalls

\* OrdwayClient(email, api_key, company, user_token, api_version, sandbox, proxies, headers, session)
Construct ==
  /\ pc = "new"
  /\ \E api_version \in VersionStrings \cup {DefaultApiVersion}, sandbox \in BOOLEAN,
        proxies \in OptProxies, headers \in OptHeaders, sess \in OptSessions :
       InitCall("a@b.com", "k", "acme", "t", api_version, sandbox, proxies, headers, sess, "init")
  /\ UNCHANGED <<environ, log>>

\* ---------------------------------------------------------------- from_env
\* the lookups environ[...] all succeed
RequiredPresent(env) == \A i \in 1..Len(REQUIRED_ENV) : REQUIRED_ENV[i] \in DOMAIN env

\* the key whose lookup raises KeyError: the first one missing
FirstMissing(env) ==
  REQUIRED_ENV[CHOOSE i \in 1..Len(REQUIRED_ENV) :
                 /\ REQUIRED_ENV[i] \notin DOMAIN env
                 /\ \A j \in 1..(i - 1) : REQUIRED_ENV[j] \in DOMAIN env]

\* variant: the message names only the variable whose lookup failed
EnvErrMessageOfKey(err) == [kind |-> "missing_env", names |-> <<err>>]

\* err_message: names the four variables whatever err is
EnvErrMessage(err) == [kind |-> "missing_env", names |-> REQUIRED_ENV]

\* variant: ORDWAY_API_VERSION is not passed on
EnvKwargsNoVersion(env) ==
  ("email" :> env["ORDWAY_EMAIL"]) @@ ("api_key" :> env["ORDWAY_API_KEY"])
  @@ ("company" :> env["ORDWAY_COMPANY"]) @@ ("user_token" :> env["ORDWAY_USER_TOKEN"])

\* env_vars, with api_version added when ORDWAY_API_VERSION is set
EnvKwargs(env) ==
  ("email" :> env["ORDWAY_EMAIL"]) @@ ("api_key" :> env["ORDWAY_API_KEY"])
  @@ ("company" :> env["ORDWAY_COMPANY"]) @@ ("user_token" :> env["ORDWAY_USER_TOKEN"])
  @@ (IF "ORDWAY_API_VERSION" \in DOMAIN env
        THEN ("api_version" :> env["ORDWAY_API_VERSION"]) ELSE EmptyMap)

\* OrdwayClient.from_env(); env is the process environment it finds
FromEnv ==
  /\ pc = "new"
  /\ \E env \in Envs :
       /\ environ' = env
       /\ IF RequiredPresent(env)
            THEN LET kw == EnvKwargs(env) IN
                 /\ log' = Append(log, [level |-> "debug", text |-> <<kw["email"], kw["company"]>>])
                 /\ InitCall(kw["email"], kw["api_key"], kw["company"], kw["user_token"],
                             IF "api_version" \in DOMAIN kw THEN kw["api_version"] ELSE DefaultApiVersion,
                             FALSE, None, None, None, "from_env")
            ELSE LET msg == EnvErrMessage(FirstMissing(env)) IN
                 /\ log' = Append(log, [level |-> "error", text |-> msg.names])
                 /\ lastCall' = [op |-> "from_env", arg |-> <<>>, raised |-> "config", message |-> msg]
                 /\ pc' = "failed"
                 /\ UNCHANGED <<self, sessions, argSession, exitCalls>>

\* ------------------------------------------------------ api_version setter
\* client.api_version = api_version
SetApiVersion ==
  /\ pc = "open"
  /\ \E api_version \in VersionStrings :
       LET version == StripV(api_version)
           verified == VerifyApiVersion(version) IN
       /\ self' = [self EXCEPT !["_api_version"] = version]
       /\ lastCall' = [op |-> "set", arg |-> api_version,
                       raised |-> IF verified THEN "none" ELSE "config",
                       message |-> IF verified THEN NoMessage ELSE VersionErrMessage(version)]
  /\ UNCHANGED <<pc, sessions, argSession, environ, log, exitCalls>>

\* ------------------------------------------------------------------- scope
\* __enter__
EnterScope ==
  /\ pc = "open"
  /\ lastCall' = [op |-> "enter", arg |-> <<>>, raised |-> "none", message |-> NoMessage]
  /\ UNCHANGED <<pc, self, sessions, argSession, environ, log, exitCalls>>

\* variant: __exit__ closes the session on its first call only
ExitScopeOnce ==
  /\ pc = "open"
  /\ exitCalls < MaxExits
  /\ exitCalls' = exitCalls + 1
  /\ sessions' = [sessions EXCEPT ![self["session"]].closes = IF @ = 0 THEN 1 ELSE @]
  /\ lastCall' = [op |-> "exit", arg |-> <<>>, raised |-> "none", message |-> NoMessage]
  /\ UNCHANGED <<pc, self, argSession, environ, log>>

\* variant: __exit__ closes only a session the client created
ExitScopeOwnedOnly ==
  /\ pc = "open"
  /\ exitCalls < MaxExits
  /\ exitCalls' = exitCalls + 1
  /\ sessions' = [sessions EXCEPT ![self["session"]].closes = IF argSession = None THEN @ + 1 ELSE @]
  /\ lastCall' = [op |-> "exit", arg |-> <<>>, raised |-> "none", message |-> NoMessage]
  /\ UNCHANGED <<pc, self, argSession, environ, log>>

\* __exit__: self.session.close()
ExitScope ==
  /\ pc = "open"
  /\ exitCalls < MaxExits
  /\ exitCalls' = exitCalls + 1
  /\ sessions' = [sessions EXCEPT ![self["session"]].closes = @ + 1]
  /\ lastCall' = [op |-> "exit", arg |-> <<>>, raised |-> "none", message |-> NoMessage]
  /\ UNCHANGED <<pc, self, argSession, environ, log>>

\* ----------------------------------------------------------- specification
Init ==
  /\ pc = "new"
  /\ self = EmptyMap
  /\ sessions = EmptyMap
  /\ argSession = None
  /\ environ = EmptyMap
  /\ log = <<>>
  /\ lastCall = [op |-> "none", arg |-> <<>>, raised |-> "none", message |-> NoMessage]
  /\ exitCalls = 0

Next == Construct \/ FromEnv \/ SetApiVersion \/ EnterScope \/ ExitScope

Spec == Init /\ [][Next]_vars

\* ------------------------------------------------------------------ helpers
\* __init__ got as far as the api_version assignment
SetterRan == "_api_version" \in DOMAIN self
TheSession == sessions[self["session"]]


\* the four required variables are all set in the environment from_env read
AllRequiredSet == RequiredNames \subseteq DOMAIN environ

\* ------------------------------------------------------------------ claims

\* C1 (as claimed): after a successful construction, whatever api_version
\* assignments follow, the getter returns a member of SUPPORTED_API_VERSIONS.
C1_VersionAlwaysSupported ==
  pc = "open" => self["_api_version"] \in SUPPORTED_API_VERSIONS

\* C2 (as claimed): an api_version assignment that raises leaves the value
\* the getter returned before the assignment in place.
C2_FailedWriteKeepsPrior ==
  [][(pc = "open" /\ lastCall'.op = "set" /\ lastCall'.raised = "config")
       => self'["_api_version"] = self["_api_version"]]_vars

\* C3: the setter stores its argument minus exactly one leading "v" when the
\* argument starts with "v" and the argument itself otherwise; constructing
\* with a supported s or with "v"+s succeeds and the getter returns s.
C3_StripOnce ==
  (SetterRan /\ lastCall.op \in {"init", "from_env", "set"}) =>
    LET a == lastCall.arg
        v == self["_api_version"] IN
    /\ \/ a = <<"v">> \o v
       \/ a = v /\ (Len(a) = 0 \/ a[1] # "v")
    /\ (lastCall.op = "init"
          /\ \E s \in SUPPORTED_API_VERSIONS : a = s \/ a = <<"v">> \o s)
         => /\ pc = "open"
            /\ lastCall.raised = "none"
            /\ v \in SUPPORTED_API_VERSIONS
            /\ a \in {v, <<"v">> \o v}

C3_Witness ==
  /\ pc = "open"
  /\ lastCall.op = "init"
  /\ lastCall.arg = <<"v", "1">>
  /\ self["_api_version"] = <<"1">>

\* C4: a constructor call whose version is unsupported after one leading "v"
\* is removed raises a configuration error, and the object it raised on has
\* none of the 20 resource-interface attributes.
C4_NoInterfacesOnVersionError ==
  (SetterRan /\ lastCall.op \in {"init", "from_env"}
     /\ self["_api_version"] \notin SUPPORTED_API_VERSIONS) =>
    /\ pc = "failed"
    /\ lastCall.raised = "config"
    /\ lastCall.message.kind = "unsupported_version"
    /\ DOMAIN self \cap INTERFACES = {}

C4_Witness ==
  /\ pc = "failed"
  /\ lastCall.op = "init"
  /\ lastCall.arg = <<"v", "v", "1">>
  /\ lastCall.raised = "config"
  /\ "session" \in DOMAIN self

\* C5 (as claimed): however many times the scope is exited, the session's
\* close has been invoked exactly once.
C5_ClosedExactlyOnce ==
  (pc = "open" /\ exitCalls >= 1) => TheSession.closes = 1

\* C5 (amended): every exit invokes the session's close exactly once, so the
\* closes equal the exits; entering closes nothing; enter and exit raise
\* nothing.
C5_CloseOncePerExit ==
  pc = "open" =>
    /\ TheSession.closes = exitCalls
    /\ lastCall.op \in {"enter", "exit"} => lastCall.raised = "none"

C5_Witness ==
  /\ pc = "open"
  /\ lastCall.op = "exit"
  /\ exitCalls = 2
  /\ TheSession.closes = 2

\* C6: from_env with a required variable missing raises a configuration error
\* whose message names all four variables, has logged that message at error
\* level, and has built nothing: no attribute, no session.
C6_MissingEnvRaises ==
  (lastCall.op = "from_env" /\ ~AllRequiredSet) =>
    /\ pc = "failed"
    /\ lastCall.raised = "config"
    /\ lastCall.message.kind = "missing_env"
    /\ lastCall.message.names =
         <<"ORDWAY_EMAIL", "ORDWAY_API_KEY", "ORDWAY_COMPANY", "ORDWAY_USER_TOKEN">>
    /\ log = <<[level |-> "error", text |-> lastCall.message.names]>>
    /\ DOMAIN self = {}
    /\ DOMAIN sessions = {}

C6_Witness ==
  /\ lastCall.op = "from_env"
  /\ DOMAIN environ = {"ORDWAY_EMAIL", "ORDWAY_API_KEY", "ORDWAY_COMPANY"}
  /\ lastCall.raised = "config"
  /\ Len(log) = 1

\* what C7 says of the client from_env returns
FromEnvResult ==
  /\ pc = "open"
  /\ lastCall.raised = "none"
  /\ self["email"] = environ["ORDWAY_EMAIL"]
  /\ self["api_key"] = environ["ORDWAY_API_KEY"]
  /\ self["company"] = environ["ORDWAY_COMPANY"]
  /\ self["user_token"] = environ["ORDWAY_USER_TOKEN"]
  /\ lastCall.arg = IF "ORDWAY_API_VERSION" \in DOMAIN environ
                      THEN environ["ORDWAY_API_VERSION"] ELSE <<"1">>
  /\ self["_api_version"] = StripV(lastCall.arg)
  /\ \A n \in INTERFACES : n \in DOMAIN self /\ self[n].sandbox = FALSE
  /\ self["headers"] = None
  /\ self["proxies"] = None
  /\ argSession = None
  /\ self["session"] = OwnId

\* C7 (as claimed): from_env with the four required variables set succeeds.
C7_FromEnvSucceeds ==
  (lastCall.op = "from_env" /\ AllRequiredSet) => FromEnvResult

\* C7 (amended): from_env with the four required variables set, and
\* ORDWAY_API_VERSION absent or supported once one leading "v" is removed,
\* succeeds with the environment's credentials, that version ("1" when
\* absent), sandbox false and no headers, proxies or session.
C7_FromEnvSucceedsIfSupported ==
  (lastCall.op = "from_env" /\ AllRequiredSet
     /\ ("ORDWAY_API_VERSION" \in DOMAIN environ
           => StripV(environ["ORDWAY_API_VERSION"]) \in SUPPORTED_API_VERSIONS))
    => FromEnvResult

C7_Witness ==
  /\ lastCall.op = "from_env"
  /\ AllRequiredSet
  /\ "ORDWAY_API_VERSION" \in DOMAIN environ
  /\ environ["ORDWAY_API_VERSION"] = <<"v", "1">>
  /\ pc = "open"

\* current is base extended and overridden by supplied, or base when nothing
\* was supplied
MergedFrom(current, base, supplied) ==
  IF supplied = None
    THEN current = base
    ELSE /\ DOMAIN current = DOMAIN base \cup DOMAIN The(supplied)
         /\ \A k \in DOMAIN The(supplied) : current[k] = The(supplied)[k]
         /\ \A k \in DOMAIN base \ DOMAIN The(supplied) : current[k] = base[k]

\* the session as the session factory handed it to __init__
SessionBefore == IF argSession = None THEN DefaultSession ELSE The(argSession)

\* C8: the session's default headers and proxies are the ones it had before
\* construction, extended and overridden by the supplied mapping, and
\* untouched when none was supplied.
C8_DefaultsMerged ==
  "session" \in DOMAIN self =>
    /\ MergedFrom(TheSession.headers, SessionBefore.headers, self["headers"])
    /\ MergedFrom(TheSession.proxies, SessionBefore.proxies, self["proxies"])

C8_Witness ==
  /\ lastCall.op = "init"
  /\ argSession # None
  /\ The(argSession).headers = [k \in HeaderKeys |-> "a"]
  /\ self["headers"] = Some([k \in {"X-Foo"} |-> "b"])
  /\ TheSession.headers = [k \in HeaderKeys |-> IF k = "X-Foo" THEN "b" ELSE "a"]

\* C9 (as claimed): a constructor call that raises after it obtained a
\* session of its own has closed that session.
C9_FailedConstructReleasesSession ==
  (pc = "failed" /\ "session" \in DOMAIN self /\ argSession = None)
    => TheSession.closes >= 1

\* C10: an open client holds one session and no other exists; a supplied
\* session is the one it holds; and an exit has closed the held session,
\* supplied or not.
C10_OneSessionAdoptedAndClosed ==
  pc = "open" =>
    /\ DOMAIN sessions = {self["session"]}
    /\ argSession # None => self["session"] = ExternalId
    /\ argSession = None => self["session"] = OwnId
    /\ lastCall.op = "exit" => TheSession.closes >= 1

C10_Witness ==
  /\ pc = "open"
  /\ argSession # None
  /\ self["session"] = ExternalId
  /\ lastCall.op = "exit"
  /\ TheSession.closes >= 1

====
